---- MODULE Spec2Model ----
(***************************************************************************)
(* A model of userdefaults3.py: the module-level identity resolution and   *)
(* bridge probe, the file-backed store (FileUserDefaults), the             *)
(* bridge-backed store (ObjCUserDefaults) and the facade UserDefaults.     *)
(***************************************************************************)
EXTENDS Integers, Sequences, FiniteSets, TLC

\* Bound on the number of store operations of one run.
MaxSteps == 4

\* Python's None, where the other values are strings.
None == "None"
\* A key that is not in a document.
Absent == "<absent>"

(***************************************************************************)
(* The data: keys, Python values, their binary-plist encodings and their   *)
(* Objective-C counterparts.                                               *)
(***************************************************************************)
Keys == {"a", "b"}

\* Python values a caller may store: the str "a", a list, a tuple with the
\* same items as the list, and an object of a type no codec knows (a set).
PyValues == {"a", "lst", "tup", "obj"}

\* Values of the settings document's type model (spec section 3).
Supported == {"a", "lst"}

Stores == {"A", "B"}
SuiteNames == {"", "group.example"}

\* Bundle identifiers of the runtimes the module tells apart.
BundleIds == {"com.example.app", "AsheKube.app.a-Shell", "ch.marcela.ada.LibTerm",
              "com.omz-software.Pythonista3"}

EmptyDoc == [k \in Keys |-> Absent]

\* plistlib's binary writer: which Python values it can write, and as what.
Encodable(v) == v \in {"a", "lst", "tup"}

PlistEncode(v) ==
    CASE v = "a" -> "bp_string_a"
      [] v = "lst" -> "bp_array"
      [] v = "tup" -> "bp_array"
      [] OTHER -> Absent

\* plistlib's binary parser: an array always comes back as a list.
PlistDecode(o) ==
    CASE o = "bp_string_a" -> "a"
      [] o = "bp_array" -> "lst"
      [] OTHER -> Absent

PlistObjects == {"bp_string_a", "bp_array"}

\* The content of a file: missing, not a binary plist, cut short by a failed
\* write, or a binary plist holding a document.
FileMissing == [kind |-> "missing", doc |-> EmptyDoc]
FileGarbage == [kind |-> "garbage", doc |-> EmptyDoc]
FileTruncated == [kind |-> "truncated", doc |-> EmptyDoc]
FilePlist(d) == [kind |-> "plist", doc |-> d]

\* plistlib.dump(data, f, fmt=FMT_BINARY) into a file just opened with "wb":
\* the encoded document, or what is left of the file when a value is refused.
plistlib_dump(data) ==
    IF \A k \in Keys : data[k] = Absent \/ Encodable(data[k])
    THEN FilePlist([k \in Keys |-> PlistEncode(data[k])])
    ELSE FileTruncated

\* Whether open(mode="wb") + plistlib.dump raises (TypeError).
plistlib_dump_raises(data) ==
    \E k \in Keys : data[k] # Absent /\ ~Encodable(data[k])

\* open(mode="rb") + plistlib.load(f, fmt=FMT_BINARY): the outcome and the
\* decoded document.
plistlib_load(file) ==
    CASE file.kind = "missing" -> [exc |-> "FileNotFoundError", doc |-> EmptyDoc]
      [] file.kind = "plist" ->
            [exc |-> None, doc |-> [k \in Keys |-> PlistDecode(file.doc[k])]]
      [] OTHER -> [exc |-> "InvalidFileException", doc |-> EmptyDoc]

(***************************************************************************)
(* The state.                                                              *)
(***************************************************************************)
VARIABLES
    env,             \* what the process finds: manifest, environment variable, bridge modules
    phase,           \* how far the module's import has come
    BUNDLE_ID,       \* module-level BUNDLE_ID
    NSUserDefaults,  \* module-level _NSUserDefaults: None or the handle's domain
    UserDefaults,    \* module-level UserDefaults: the class the facade is bound to
    bootLog,         \* what the probe did: "import" of a bridge module, "init" of the handle
    disk,            \* the file at each settings path
    native,          \* the native preference service: domain -> key -> object
    stores,          \* the store instances the caller holds
    last,            \* the last operation and its outcome
    steps            \* the number of operations so far

vars == <<env, phase, BUNDLE_ID, NSUserDefaults, UserDefaults, bootLog,
          disk, native, stores, last, steps>>

\* USERHOME / "Library" / plist_folder / f"{bundle_id}.plist"
PathOf(folder, bundle_id) == <<"~", "Library", folder, bundle_id, ".plist">>
NoPath == <<>>

Paths == {PathOf(f, b) : f \in {"Preferences", "SyncedPreferences"}, b \in BundleIds \cup {""}}

Domains == {"standard"} \cup (SuiteNames \ {""})

Unbound == [cls |-> "unbound", writeback |-> FALSE, path |-> NoPath, data |-> EmptyDoc,
            suitename |-> "", objcclass |-> None, entered |-> FALSE]

\* The record of an operation: what was called on which store with which
\* arguments, how it ended (outcome: "ok" or the exception raised), what it
\* returned, the I/O it performed (eff) and, for a constructor, the attributes
\* it had assigned to the new instance when it ended (attrs).
NoOp == [op |-> "none", store |-> None, cls |-> None, key |-> None, value |-> None,
         writeback |-> FALSE, suitename |-> "", outcome |-> None, ret |-> None,
         eff |-> {}, attrs |-> {}]

(***************************************************************************)
(* Module import: identity, probe, backend selection.                      *)
(***************************************************************************)
\* What the manifest <executable directory>/Info.plist may be: missing, not a
\* plist, a plist without CFBundleIdentifier, or a plist naming the bundle.
Manifests == {"missing", "invalid", "nokey"} \cup BundleIds

\* The namespace captured from the environment variable, None without a match.
XpcNamespaces == {None, "com.example.app"}

\* The settings file the process starts with.
InitFiles == {FileMissing, FileGarbage,
              FilePlist([k \in Keys |-> IF k = "a" THEN "bp_string_a" ELSE Absent])}

\* `"Pythonista" in BUNDLE_ID`, `"LibTerm" in BUNDLE_ID`, `"a-Shell" in BUNDLE_ID`
HasPythonista(id) == id = "com.omz-software.Pythonista3"
HasLibTerm(id) == id = "ch.marcela.ada.LibTerm"
HasAShell(id) == id = "AsheKube.app.a-Shell"

\* The environments a run starts in.  Nothing under test reads the environment
\* variable when the manifest names the bundle, so it is varied for a missing
\* manifest and for one manifest that names a different bundle.
Envs == {e \in [manifest : Manifests, xpc : XpcNamespaces, bridge : BOOLEAN] :
            e.xpc = None \/ e.manifest \in {"missing", "com.omz-software.Pythonista3"}}

Init ==
    /\ env \in Envs
    /\ phase = "start"
    /\ BUNDLE_ID = None
    /\ NSUserDefaults = None
    /\ UserDefaults = None
    /\ bootLog = {}
    /\ \E f \in InitFiles : disk = [p \in Paths |-> f]
    /\ native = [d \in Domains |-> EmptyDoc]
    /\ stores = [s \in Stores |-> Unbound]
    /\ last = NoOp
    /\ steps = 0

\* The try/except that sets BUNDLE_ID: a missing or undecodable manifest gives
\* "", a manifest without the field raises KeyError, which nothing catches.
LoadBundleId ==
    /\ phase = "start"
    /\ IF env.manifest = "nokey"
       THEN /\ phase' = "import_failed"
            /\ UNCHANGED BUNDLE_ID
       ELSE /\ phase' = "identified"
            /\ BUNDLE_ID' = IF env.manifest \in BundleIds THEN env.manifest ELSE ""
    /\ UNCHANGED <<env, NSUserDefaults, UserDefaults, bootLog, disk, native, stores,
                   last, steps>>

\* A probe without the branch for LibTerm and a-Shell.
ProbeImports_no_flavor_check(id) == TRUE

\* Whether the probe's try block gets to import a bridge module.
ProbeImports(id) == HasPythonista(id) \/ ~(HasLibTerm(id) \/ HasAShell(id))

\* The try/except/else that sets _NSUserDefaults.
ProbeBridge ==
    /\ phase = "identified"
    /\ phase' = "probed"
    /\ IF ProbeImports(BUNDLE_ID)
       THEN IF env.bridge
            THEN /\ NSUserDefaults' = "standard"
                 /\ bootLog' = bootLog \cup {"import", "init"}
            ELSE /\ NSUserDefaults' = None
                 /\ bootLog' = bootLog \cup {"import"}
       ELSE /\ NSUserDefaults' = None
            /\ UNCHANGED bootLog
    /\ UNCHANGED <<env, BUNDLE_ID, UserDefaults, disk, native, stores, last, steps>>

\* A selection that binds the file-backed store whatever the probe found.
SelectBackend_always_file ==
    /\ phase = "probed"
    /\ phase' = "ready"
    /\ UserDefaults' = "File"
    /\ UNCHANGED <<env, BUNDLE_ID, NSUserDefaults, bootLog, disk, native, stores,
                   last, steps>>

\* The module-level if/else that binds UserDefaults.
SelectBackend ==
    /\ phase = "probed"
    /\ phase' = "ready"
    /\ UserDefaults' = IF NSUserDefaults = None THEN "File" ELSE "ObjC"
    /\ UNCHANGED <<env, BUNDLE_ID, NSUserDefaults, bootLog, disk, native, stores,
                   last, steps>>

\* get_bundle_id(): the identity resolver of spec section 4.1.
get_bundle_id ==
    IF env.manifest \in BundleIds THEN env.manifest
    ELSE IF env.xpc # None THEN env.xpc
    ELSE None

\* A folder choice without the special case.
plist_folder_always_preferences(bundle_id) == "Preferences"

\* The folder get_userdefaults_path picks for a bundle identifier.
plist_folder(bundle_id) ==
    IF bundle_id = "AsheKube.app.a-Shell" THEN "SyncedPreferences" ELSE "Preferences"

\* A path resolver without the check for None: the missing identifier ends
\* up in the file name like an empty one.
get_userdefaults_path_unchecked ==
    LET bundle_id == get_bundle_id
    IN  IF bundle_id = None THEN PathOf("Preferences", "")
        ELSE PathOf(plist_folder(bundle_id), bundle_id)

get_userdefaults_path ==
    LET bundle_id == get_bundle_id
    IN  IF bundle_id = None THEN NoPath
        ELSE PathOf(plist_folder(bundle_id), bundle_id)

(***************************************************************************)
(* FileUserDefaults.                                                       *)
(***************************************************************************)
\* Opening in a mode that creates the file when there is none ("a+b").
open_creating(file) == IF file.kind = "missing" THEN FileTruncated ELSE file

\* self.path.open(mode="rb"): what opening for reading leaves of the file.
open_rb(file) == file

\* FileUserDefaults.__init__ past the suitename check: the exception raised
\* (None when it returns), the I/O done, the attributes assigned so far, the
\* instance and the disk.
FileUserDefaults_init_load(writeback) ==
    LET path == get_userdefaults_path
    IN  IF path = NoPath
        THEN [exc |-> "NotImplementedError", eff |-> {"resolve_path"},
              attrs |-> {"_writeback", "path"}, obj |-> Unbound, disk |-> disk]
        ELSE LET r == plistlib_load(disk[path])
                 d == [disk EXCEPT ![path] = open_rb(@)]
             IN  CASE r.exc = "FileNotFoundError" ->
                        [exc |-> "UserDefaultsError", eff |-> {"resolve_path", "open"},
                         attrs |-> {"_writeback", "path"}, obj |-> Unbound, disk |-> d]
                   [] r.exc = "InvalidFileException" ->
                        [exc |-> "UserDefaultsError",
                         eff |-> {"resolve_path", "open", "read"},
                         attrs |-> {"_writeback", "path"}, obj |-> Unbound, disk |-> d]
                   [] OTHER ->
                        [exc |-> None, eff |-> {"resolve_path", "open", "read"},
                         attrs |-> {"_writeback", "path", "data"},
                         obj |-> [cls |-> "File", writeback |-> writeback,
                                  path |-> path, data |-> r.doc, suitename |-> "",
                                  objcclass |-> None, entered |-> FALSE],
                         disk |-> d]

\* A constructor that looks at suitename only after loading the document.
FileUserDefaults_init_late_check(writeback, suitename) ==
    LET r == FileUserDefaults_init_load(writeback)
    IN  IF r.exc = None /\ suitename # ""
        THEN [r EXCEPT !.exc = "NotImplementedError", !.obj = Unbound]
        ELSE r

\* FileUserDefaults.__init__
FileUserDefaults_init(writeback, suitename) ==
    IF suitename # ""
    THEN [exc |-> "NotImplementedError", eff |-> {}, attrs |-> {}, obj |-> Unbound,
          disk |-> disk]
    ELSE FileUserDefaults_init_load(writeback)

\* A sync that writes whatever writeback is.
FileUserDefaults_sync_always(st, d) ==
    [exc |-> IF plistlib_dump_raises(st.data) THEN "TypeError" ELSE None,
     eff |-> {"open", "write"},
     disk |-> [d EXCEPT ![st.path] = plistlib_dump(st.data)]]

\* A sync that resolves the file anew, always under Preferences.
FileUserDefaults_sync_to_preferences(st, d) ==
    IF st.writeback
    THEN [exc |-> IF plistlib_dump_raises(st.data) THEN "TypeError" ELSE None,
          eff |-> {"open", "write"},
          disk |-> [d EXCEPT ![PathOf("Preferences", st.path[4])] =
                                  plistlib_dump(st.data)]]
    ELSE [exc |-> None, eff |-> {}, disk |-> d]

\* FileUserDefaults.sync on the instance st with the disk d: the exception
\* raised, the I/O done and the disk afterwards.
FileUserDefaults_sync(st, d) ==
    IF st.writeback
    THEN [exc |-> IF plistlib_dump_raises(st.data) THEN "TypeError" ELSE None,
          eff |-> {"open", "write"},
          disk |-> [d EXCEPT ![st.path] = plistlib_dump(st.data)]]
    ELSE [exc |-> None, eff |-> {}, disk |-> d]

\* A lookup that goes to the file instead of the in-memory document.
BaseUserDefaults_getitem_from_disk(st, key) ==
    LET doc == plistlib_load(disk[st.path]).doc
    IN  IF doc[key] = Absent
        THEN [exc |-> "KeyError", ret |-> None]
        ELSE [exc |-> None, ret |-> doc[key]]

\* BaseUserDefaults.__iter__: iter(self.data), as the set of keys it yields
BaseUserDefaults_iter(data) == {k \in Keys : data[k] # Absent}

\* BaseUserDefaults.__len__: len(self.data)
BaseUserDefaults_len(data) == Cardinality({k \in Keys : data[k] # Absent})

\* BaseUserDefaults.__getitem__: self.data[key]
BaseUserDefaults_getitem(st, key) ==
    IF st.data[key] = Absent
    THEN [exc |-> "KeyError", ret |-> None]
    ELSE [exc |-> None, ret |-> st.data[key]]

\* BaseUserDefaults.__setitem__: self.data[key] = value
BaseUserDefaults_setitem(st, key, value) == [st EXCEPT !.data[key] = value]

\* BaseUserDefaults.__delitem__: del self.data[key]
BaseUserDefaults_delitem(st, key) ==
    IF st.data[key] = Absent
    THEN [exc |-> "KeyError", obj |-> st]
    ELSE [exc |-> None, obj |-> [st EXCEPT !.data[key] = Absent]]

(***************************************************************************)
(* ObjCUserDefaults and the native service behind it.                      *)
(***************************************************************************)
\* at(value): the Objective-C object of a Python value; Absent when the
\* conversion raises TypeError.
at(value) ==
    CASE value = "a" -> "NS_string_a"
      [] value = "b" -> "NS_string_b"
      [] value = "lst" -> "NS_array"
      [] value = "tup" -> "NS_array"
      [] OTHER -> Absent

IsNSString(o) == o \in {"NS_string_a", "NS_string_b"}

\* What the bridge hands back to Python for an object the service returned:
\* nil is None, a string is a str, an array is a list.
from_objc(o) ==
    CASE o = "NS_string_a" -> "a"
      [] o = "NS_string_b" -> "b"
      [] o = "NS_array" -> "lst"
      [] OTHER -> None

\* ObjCUserDefaults.__init__ (its exception, I/O, assigned attributes, instance).
ObjCUserDefaults_init(writeback, suitename) ==
    IF NSUserDefaults = None
    THEN [exc |-> "NotImplementedError", eff |-> {}, attrs |-> {"suitename"},
          obj |-> Unbound, disk |-> disk]
    ELSE [exc |-> None,
          eff |-> IF suitename # "" THEN {"native_call"} ELSE {},
          attrs |-> {"suitename", "objcclass"},
          obj |-> [cls |-> "ObjC", writeback |-> FALSE, path |-> NoPath,
                   data |-> EmptyDoc, suitename |-> suitename,
                   objcclass |-> IF suitename # "" THEN suitename ELSE NSUserDefaults,
                   entered |-> FALSE],
          disk |-> disk]

\* ObjCUserDefaults.__getitem__: self.objcclass.objectForKey_(key)
ObjCUserDefaults_getitem(st, key) ==
    [exc |-> None, ret |-> from_objc(native[st.objcclass][key])]

\* ObjCUserDefaults.__setitem__: self.objcclass.setObject_forKey_(key, at(value)).
\* The first argument is the object to store, the second the key to store it
\* under: [object, key] as the call passes them, key = Absent when at() raises.
ObjCUserDefaults_setitem_args(key, value) ==
    [object |-> at(key), key |-> at(value)]

\* ObjCUserDefaults.__delitem__: self.objcclass.removeObjectForKey_(key)
ObjCUserDefaults_delitem(st, key) ==
    [native EXCEPT ![st.objcclass][key] = Absent]

\* ObjCUserDefaults.data (setter), called by `s.data = value`: the function
\* is declared with self alone, so the call with the value raises TypeError
\* before its body runs; the native service is not touched.
ObjCUserDefaults_data_setter(st, value) == [exc |-> "TypeError", native |-> native]

\* A sync copied from the file-backed store: it reads self._writeback, which
\* a bridge-backed store does not have.
ObjCUserDefaults_sync_like_file(st, d) ==
    [exc |-> "AttributeError", eff |-> {}, disk |-> d]

\* ObjCUserDefaults.data (getter): self.objcclass.dictionaryRepresentation(),
\* the snapshot of the store's domain with the objects as Python sees them.
ObjCUserDefaults_data(st) == [k \in Keys |-> IF native[st.objcclass][k] = Absent THEN Absent
                                             ELSE from_objc(native[st.objcclass][k])]

\* ObjCUserDefaults.sync: pass
ObjCUserDefaults_sync(st, d) == [exc |-> None, eff |-> {}, disk |-> d]

\* A scope exit that does nothing.
FileUserDefaults_exit_pass(st, d) ==
    [exc |-> None, eff |-> {}, disk |-> d, ret |-> None]

\* A scope exit that syncs and then returns True.
FileUserDefaults_exit_returns_true(st, d) ==
    LET r == FileUserDefaults_sync(st, d)
    IN  [exc |-> r.exc, eff |-> r.eff, disk |-> r.disk, ret |-> "True"]

\* FileUserDefaults.__exit__: self.sync()
\* (ret is what __exit__ returns: None, the method having no return statement)
FileUserDefaults_exit(st, d) ==
    LET r == FileUserDefaults_sync(st, d)
    IN  [exc |-> r.exc, eff |-> r.eff, disk |-> r.disk, ret |-> None]

\* ObjCUserDefaults.__exit__: pass
ObjCUserDefaults_exit(st, d) == [exc |-> None, eff |-> {}, disk |-> d, ret |-> None]

(***************************************************************************)
(* The operations of a caller, once the module is imported.                *)
(***************************************************************************)
Ready == phase = "ready" /\ steps < MaxSteps

Bound(s) == stores[s].cls # "unbound"

Rec(op, s, key, value, outcome, ret, eff) ==
    [op |-> op, store |-> s, cls |-> stores[s].cls, key |-> key, value |-> value,
     writeback |-> stores[s].writeback, suitename |-> stores[s].suitename,
     outcome |-> outcome, ret |-> ret, eff |-> eff, attrs |-> {}]

Outcome(exc) == IF exc = None THEN "ok" ELSE exc

\* s = cls(writeback, suitename), cls one of the two classes or the facade.
\* A constructor that raises leaves the caller's variable as it was.
Construct(s, cls, writeback, suitename) ==
    /\ Ready
    /\ LET c == IF cls = "UserDefaults" THEN UserDefaults ELSE cls
           r == IF c = "File" THEN FileUserDefaults_init(writeback, suitename)
                ELSE ObjCUserDefaults_init(writeback, suitename)
       IN  /\ stores' = IF r.exc = None THEN [stores EXCEPT ![s] = r.obj] ELSE stores
           /\ disk' = r.disk
           /\ last' = [op |-> "init", store |-> s, cls |-> c, key |-> None,
                       value |-> None, writeback |-> writeback, suitename |-> suitename,
                       outcome |-> Outcome(r.exc), ret |-> None, eff |-> r.eff,
                       attrs |-> r.attrs]
    /\ steps' = steps + 1
    /\ UNCHANGED <<env, phase, BUNDLE_ID, NSUserDefaults, UserDefaults, bootLog, native>>

\* s[key]
GetItem(s, key) ==
    /\ Ready /\ Bound(s)
    /\ LET st == stores[s]
           r == IF st.cls = "File" THEN BaseUserDefaults_getitem(st, key)
                ELSE ObjCUserDefaults_getitem(st, key)
       IN  last' = Rec("get", s, key, None, Outcome(r.exc), r.ret,
                       IF st.cls = "ObjC" THEN {"native_call"} ELSE {})
    /\ steps' = steps + 1
    /\ UNCHANGED <<env, phase, BUNDLE_ID, NSUserDefaults, UserDefaults, bootLog, disk,
                   native, stores>>

\* key in s: Mapping.__contains__ tries s[key] and answers False on KeyError.
Contains(s, key) ==
    /\ Ready /\ Bound(s)
    /\ LET st == stores[s]
           r == IF st.cls = "File" THEN BaseUserDefaults_getitem(st, key)
                ELSE ObjCUserDefaults_getitem(st, key)
       IN  last' = Rec("contains", s, key, None, "ok",
                       IF r.exc = "KeyError" THEN "False" ELSE "True",
                       IF st.cls = "ObjC" THEN {"native_call"} ELSE {})
    /\ steps' = steps + 1
    /\ UNCHANGED <<env, phase, BUNDLE_ID, NSUserDefaults, UserDefaults, bootLog, disk,
                   native, stores>>

\* s[key] = value on a file-backed store
FileSetItem(s, key, value) ==
    /\ Ready /\ stores[s].cls = "File"
    /\ stores' = [stores EXCEPT ![s] = BaseUserDefaults_setitem(@, key, value)]
    /\ last' = Rec("set", s, key, value, "ok", None, {})
    /\ steps' = steps + 1
    /\ UNCHANGED <<env, phase, BUNDLE_ID, NSUserDefaults, UserDefaults, bootLog, disk,
                   native>>

\* s[key] = value on a bridge-backed store, the service accepting the call
ObjCSetItem(s, key, value) ==
    /\ Ready /\ stores[s].cls = "ObjC"
    /\ LET a == ObjCUserDefaults_setitem_args(key, value)
       IN  IF a.key = Absent
           THEN /\ last' = Rec("set", s, key, value, "TypeError", None, {})
                /\ UNCHANGED native
           ELSE /\ IsNSString(a.key)
                /\ native' = [native EXCEPT ![stores[s].objcclass][from_objc(a.key)] = a.object]
                /\ last' = Rec("set", s, key, value, "ok", None, {"native_call"})
    /\ steps' = steps + 1
    /\ UNCHANGED <<env, phase, BUNDLE_ID, NSUserDefaults, UserDefaults, bootLog, disk,
                   stores>>

\* s[key] = value on a bridge-backed store, the service handed a key that is
\* no string: it raises an Objective-C exception, which the bridge turns into
\* a Python exception or which ends the process.
ObjCSetItemBadKey(s, key, value, fatal) ==
    /\ Ready /\ stores[s].cls = "ObjC"
    /\ LET a == ObjCUserDefaults_setitem_args(key, value)
       IN  a.key # Absent /\ ~IsNSString(a.key)
    /\ last' = Rec("set", s, key, value, "ObjCException", None, {"native_call"})
    /\ phase' = IF fatal THEN "crashed" ELSE phase
    /\ steps' = steps + 1
    /\ UNCHANGED <<env, BUNDLE_ID, NSUserDefaults, UserDefaults, bootLog, disk, native,
                   stores>>

\* del s[key] on a file-backed store
FileDelItem(s, key) ==
    /\ Ready /\ stores[s].cls = "File"
    /\ LET r == BaseUserDefaults_delitem(stores[s], key)
       IN  /\ stores' = [stores EXCEPT ![s] = r.obj]
           /\ last' = Rec("del", s, key, None, Outcome(r.exc), None, {})
    /\ steps' = steps + 1
    /\ UNCHANGED <<env, phase, BUNDLE_ID, NSUserDefaults, UserDefaults, bootLog, disk,
                   native>>

\* del s[key] on a bridge-backed store
ObjCDelItem(s, key) ==
    /\ Ready /\ stores[s].cls = "ObjC"
    /\ native' = ObjCUserDefaults_delitem(stores[s], key)
    /\ last' = Rec("del", s, key, None, "ok", None, {"native_call"})
    /\ steps' = steps + 1
    /\ UNCHANGED <<env, phase, BUNDLE_ID, NSUserDefaults, UserDefaults, bootLog, disk,
                   stores>>

\* s.sync()
Sync(s) ==
    /\ Ready /\ Bound(s)
    /\ LET st == stores[s]
           r == IF st.cls = "File" THEN FileUserDefaults_sync(st, disk)
                ELSE ObjCUserDefaults_sync(st, disk)
       IN  /\ disk' = r.disk
           /\ last' = Rec("sync", s, None, None, Outcome(r.exc), None, r.eff)
    /\ steps' = steps + 1
    /\ UNCHANGED <<env, phase, BUNDLE_ID, NSUserDefaults, UserDefaults, bootLog, native,
                   stores>>

\* with s: ... (entry): __enter__ returns self
Enter(s) ==
    /\ Ready /\ Bound(s) /\ ~stores[s].entered
    /\ stores' = [stores EXCEPT ![s].entered = TRUE]
    /\ last' = Rec("enter", s, None, None, "ok", s, {})
    /\ steps' = steps + 1
    /\ UNCHANGED <<env, phase, BUNDLE_ID, NSUserDefaults, UserDefaults, bootLog, disk,
                   native>>

\* with s: ... (exit), the body having raised or not.  An exception raised by
\* __exit__ goes to the caller; otherwise an exception of the body goes on to
\* the caller unless __exit__ returned a true value.  The record's value
\* tells whether the body raised.
Exit(s, raised) ==
    /\ Ready /\ Bound(s) /\ stores[s].entered
    /\ LET st == stores[s]
           r == IF st.cls = "File" THEN FileUserDefaults_exit(st, disk)
                ELSE ObjCUserDefaults_exit(st, disk)
       IN  /\ disk' = r.disk
           /\ last' = Rec("exit", s, None, IF raised THEN "raised" ELSE None,
                          IF r.exc # None THEN r.exc
                          ELSE IF raised /\ r.ret # "True" THEN "BodyException"
                          ELSE "ok",
                          r.ret, r.eff)
    /\ stores' = [stores EXCEPT ![s].entered = FALSE]
    /\ steps' = steps + 1
    /\ UNCHANGED <<env, phase, BUNDLE_ID, NSUserDefaults, UserDefaults, bootLog, native>>

\* The document self.data names: the attribute of a file-backed store, the
\* property of a bridge-backed one.
DataOf(st) == IF st.cls = "File" THEN st.data ELSE ObjCUserDefaults_data(st)

\* iter(s), taken to its end: the keys
Iter(s) ==
    /\ Ready /\ Bound(s)
    /\ last' = Rec("iter", s, None, None, "ok", BaseUserDefaults_iter(DataOf(stores[s])),
                   IF stores[s].cls = "ObjC" THEN {"native_call"} ELSE {})
    /\ steps' = steps + 1
    /\ UNCHANGED <<env, phase, BUNDLE_ID, NSUserDefaults, UserDefaults, bootLog, disk,
                   native, stores>>

\* len(s)
Length(s) ==
    /\ Ready /\ Bound(s)
    /\ last' = Rec("len", s, None, None, "ok", BaseUserDefaults_len(DataOf(stores[s])),
                   IF stores[s].cls = "ObjC" THEN {"native_call"} ELSE {})
    /\ steps' = steps + 1
    /\ UNCHANGED <<env, phase, BUNDLE_ID, NSUserDefaults, UserDefaults, bootLog, disk,
                   native, stores>>

\* Documents a caller may assign as a whole.
DataInputs == {EmptyDoc, [k \in Keys |-> IF k = "a" THEN "lst" ELSE "a"]}

\* s.data = value: a plain attribute of a file-backed store, the read-only
\* property of a bridge-backed one.
AssignData(s, value) ==
    /\ Ready /\ Bound(s)
    /\ IF stores[s].cls = "File"
       THEN /\ stores' = [stores EXCEPT ![s].data = value]
            /\ last' = Rec("set_data", s, None, None, "ok", None, {})
            /\ UNCHANGED native
       ELSE LET r == ObjCUserDefaults_data_setter(stores[s], value)
            IN  /\ native' = r.native
                /\ last' = Rec("set_data", s, None, None, Outcome(r.exc), None, {})
                /\ UNCHANGED stores
    /\ steps' = steps + 1
    /\ UNCHANGED <<env, phase, BUNDLE_ID, NSUserDefaults, UserDefaults, bootLog, disk>>

Next ==
    \/ LoadBundleId
    \/ ProbeBridge
    \/ SelectBackend
    \/ \E s \in Stores, cls \in {"File", "ObjC", "UserDefaults"}, w \in BOOLEAN,
          n \in SuiteNames : Construct(s, cls, w, n)
    \/ \E s \in Stores, k \in Keys : GetItem(s, k)
    \/ \E s \in Stores, k \in Keys : Contains(s, k)
    \/ \E s \in Stores, k \in Keys, v \in PyValues : FileSetItem(s, k, v)
    \/ \E s \in Stores, k \in Keys, v \in PyValues : ObjCSetItem(s, k, v)
    \/ \E s \in Stores, k \in Keys, v \in PyValues, f \in BOOLEAN :
          ObjCSetItemBadKey(s, k, v, f)
    \/ \E s \in Stores, k \in Keys : FileDelItem(s, k)
    \/ \E s \in Stores, k \in Keys : ObjCDelItem(s, k)
    \/ \E s \in Stores, d \in DataInputs : AssignData(s, d)
    \/ \E s \in Stores : Iter(s)
    \/ \E s \in Stores : Length(s)
    \/ \E s \in Stores : Sync(s)
    \/ \E s \in Stores : Enter(s)
    \/ \E s \in Stores, r \in BOOLEAN : Exit(s, r)

Spec == Init /\ [][Next]_vars

(***************************************************************************)
(* Notions the properties share.                                           *)
(***************************************************************************)
\* A document all of whose values are of the settings document's types.
SupportedDoc(data) == \A k \in Keys : data[k] = Absent \/ data[k] \in Supported

\* The on-disk document at the store's path equals its in-memory document.
InSync(st) ==
    LET r == plistlib_load(disk[st.path])
    IN  r.exc = None /\ r.doc = st.data

\* s[key] and `key in s` as the store's class answers them now.
Lookup(st, key) ==
    IF st.cls = "File" THEN BaseUserDefaults_getitem(st, key)
    ELSE ObjCUserDefaults_getitem(st, key)

\* The step is an operation of a caller (not a step of the import).
IsOp(o) == steps' = steps + 1 /\ last'.op = o

(***************************************************************************)
(* C1: File backend: an explicit sync() is unconditional: whatever         *)
(* writeback is, right after sync() returns the on-disk document at the    *)
(* store's path equals the store's in-memory document.                     *)
(***************************************************************************)
C1_SyncUnconditional ==
    (last.op = "sync" /\ last.cls = "File" /\ last.outcome = "ok"
        /\ SupportedDoc(stores[last.store].data))
    => InSync(stores[last.store])

(***************************************************************************)
(* C2: File backend with writeback=True: when the with-block is left,      *)
(* normally or by an exception, the on-disk document equals the in-memory  *)
(* document (for documents of supported values).                           *)
(***************************************************************************)
C2_WritebackExitPersists ==
    (last.op = "exit" /\ last.cls = "File" /\ last.writeback
        /\ SupportedDoc(stores[last.store].data))
    => InSync(stores[last.store])

\* A with-block on a writeback store was left by an exception after a set
\* that the file did not have, and the file has it now.
C2_Witness ==
    /\ last.op = "exit" /\ last.cls = "File" /\ last.writeback
    /\ last.outcome = "BodyException"
    /\ stores[last.store].data["b"] = "lst"
    /\ InSync(stores[last.store])

(***************************************************************************)
(* C3: File backend with writeback=False: set, delete, scope entry and     *)
(* scope exit never write the file, so the file after a scope without an   *)
(* explicit sync() is the file from before the scope.                      *)
(***************************************************************************)
C3_NoImplicitWrite ==
    [][((IsOp("set") \/ IsOp("del") \/ IsOp("enter") \/ IsOp("exit"))
          /\ last'.cls = "File" /\ ~last'.writeback)
       => disk' = disk]_vars

\* A with-block on a store without writeback was left with a mutation that
\* the file does not have.
C3_Witness ==
    /\ last.op = "exit" /\ last.cls = "File" /\ ~last.writeback
    /\ stores[last.store].data["b"] = "lst"
    /\ SupportedDoc(stores[last.store].data)
    /\ ~InSync(stores[last.store])

(***************************************************************************)
(* C4: File backend persistence round trip: after set(k, v) and sync(), a  *)
(* new file-backed store on the same path answers get(k) with v, for every *)
(* supported value v.  Stated of every key the synced store holds.         *)
(***************************************************************************)
C4_PersistenceRoundTrip ==
    (last.op = "sync" /\ last.cls = "File" /\ last.outcome = "ok")
    => LET st == stores[last.store]
           reopened == FileUserDefaults_init(st.writeback, "")
       IN  \A k \in Keys :
              st.data[k] \in Supported
              => /\ reopened.exc = None
                 /\ BaseUserDefaults_getitem(reopened.obj, k)
                       = [exc |-> None, ret |-> st.data[k]]

(***************************************************************************)
(* C5: set/get round trip on both backends: after set(k, v) of a supported *)
(* value, get(k) on the same store returns v.                              *)
(***************************************************************************)
C5_SetGetRoundTrip ==
    (last.op = "set" /\ last.outcome = "ok" /\ last.value \in Supported)
    => Lookup(stores[last.store], last.key) = [exc |-> None, ret |-> last.value]

(***************************************************************************)
(* C6: delete then lookup on both backends: after delete(k) of a key the   *)
(* store held, get(k) raises and contains(k) is false.                     *)
(***************************************************************************)
Holds(st, key) ==
    IF st.cls = "File" THEN st.data[key] # Absent
    ELSE native[st.objcclass][key] # Absent

C6_DeleteThenLookup ==
    [][(IsOp("del") /\ Holds(stores[last'.store], last'.key))
       => (Lookup(stores[last.store], last.key).exc # None)']_vars

(***************************************************************************)
(* C7: constructing a backend whose prerequisite is unavailable fails with *)
(* NotImplementedError before any I/O: the file backend when no identity   *)
(* is resolvable (no file opened, no load error), the bridge backend when  *)
(* the probe yielded no handle (no native call).                           *)
(***************************************************************************)
PrerequisiteMissing ==
    \/ last.cls = "File" /\ get_bundle_id = None
    \/ last.cls = "ObjC" /\ NSUserDefaults = None

C8_ConstructNeverWrites ==
    [][(IsOp("init") /\ last'.cls = "File")
       => /\ disk' = disk
          /\ (/\ last'.suitename = ""
              /\ get_userdefaults_path # NoPath
              /\ plistlib_load(disk[get_userdefaults_path]).exc # None)
             => /\ last'.outcome = "UserDefaultsError"
                /\ "data" \notin last'.attrs
                /\ stores' = stores]_vars

\* A file-backed store was asked for where the settings file is missing:
\* load error, and the file is still missing.
C8_Witness ==
    /\ last.op = "init" /\ last.cls = "File"
    /\ last.outcome = "UserDefaultsError"
    /\ get_userdefaults_path # NoPath
    /\ disk[get_userdefaults_path].kind = "missing"
    /\ stores[last.store].cls = "unbound"

(***************************************************************************)
(* C9: constructing a file-backed store with a non-empty suitename always  *)
(* fails with NotImplementedError, before the path is resolved or a file   *)
(* read, with no attribute of the instance assigned and nothing changed.   *)
(***************************************************************************)
C9_SuiteNameUnsupported ==
    [][(IsOp("init") /\ last'.cls = "File" /\ last'.suitename # "")
       => /\ last'.outcome = "NotImplementedError"
          /\ last'.eff = {}
          /\ last'.attrs = {}
          /\ stores' = stores
          /\ disk' = disk]_vars

\* A file-backed store with a suite name was asked for where one without
\* would have loaded.
C9_Witness ==
    /\ last.op = "init" /\ last.cls = "File" /\ last.suitename # ""
    /\ last.writeback
    /\ last.outcome = "NotImplementedError"
    /\ FileUserDefaults_init(TRUE, "").exc = None

(***************************************************************************)
(* C10: backend selection: once the module is imported the facade is bound *)
(* to the bridge-backed store if and only if the probe yielded a handle,   *)
(* else to the file-backed store, and neither the binding nor the probe    *)
(* result changes, whatever stores are constructed or operated on.         *)
(***************************************************************************)
Imported == phase \in {"ready", "crashed"}

C10_BackendSelection ==
    /\ [](Imported => /\ UserDefaults \in {"File", "ObjC"}
                      /\ (UserDefaults = "ObjC" <=> NSUserDefaults # None))
    /\ [][Imported => /\ UserDefaults' = UserDefaults
                      /\ NSUserDefaults' = NSUserDefaults]_vars

\* The facade is bound to the bridge while a file-backed store, constructed
\* by its class, has been written to and synced.
C10_Witness ==
    /\ UserDefaults = "ObjC" /\ NSUserDefaults = "standard"
    /\ last.op = "sync" /\ last.cls = "File" /\ last.writeback
    /\ stores[last.store].data["b"] = "a"

(***************************************************************************)
(* C11: path resolver: no path when the identifier is None; for the        *)
(* identifier "AsheKube.app.a-Shell" the path                              *)
(* ~/Library/SyncedPreferences/<identifier>.plist; for every other         *)
(* identifier ~/Library/Preferences/<identifier>.plist.  Every file-backed *)
(* store holds the path so resolved.                                       *)
(***************************************************************************)
ExpectedPath(id) ==
    IF id = None THEN <<>>
    ELSE IF id = "AsheKube.app.a-Shell"
         THEN <<"~", "Library", "SyncedPreferences", id, ".plist">>
         ELSE <<"~", "Library", "Preferences", id, ".plist">>

C11_PathResolver ==
    /\ get_userdefaults_path = ExpectedPath(get_bundle_id)
    /\ \A s \in Stores :
          stores[s].cls = "File" => stores[s].path = ExpectedPath(get_bundle_id)
    /\ (last.op = "init" /\ last.cls = "File" /\ last.suitename = ""
          /\ get_bundle_id = None)
       => last.outcome = "NotImplementedError"

\* A file-backed store was constructed in a-Shell, on the file under
\* SyncedPreferences.
C11_Witness ==
    /\ get_bundle_id = "AsheKube.app.a-Shell"
    /\ last.op = "init" /\ last.cls = "File" /\ last.outcome = "ok"
    /\ stores[last.store].path[3] = "SyncedPreferences"

(***************************************************************************)
(* C12: bridge backend: assigning the whole document (s.data = ...) fails  *)
(* with UserDefaultsError and leaves the native service's contents as they *)
(* were.                                                                   *)
(***************************************************************************)
C12_DataReadOnly ==
    [][(IsOp("set_data") /\ last'.cls = "ObjC")
       => /\ last'.outcome = "UserDefaultsError"
          /\ native' = native]_vars

(***************************************************************************)
(* C13: identity resolver: the manifest's identifier when the manifest is  *)
(* readable and has the field, otherwise the namespace captured from the   *)
(* environment variable, otherwise None; no exception escapes the          *)
(* resolution, and every consumer (the probe through BUNDLE_ID, the path   *)
(* resolver through get_bundle_id) sees that same value.                   *)
(***************************************************************************)
ExpectedIdentity ==
    IF env.manifest \notin {"missing", "invalid", "nokey"} THEN env.manifest
    ELSE IF env.xpc # None THEN env.xpc
    ELSE None

C13_IdentityResolver ==
    /\ phase # "import_failed"
    /\ phase # "start" => /\ BUNDLE_ID = ExpectedIdentity
                          /\ get_bundle_id = BUNDLE_ID

(***************************************************************************)
(* C14: bridge backend: sync() and scope entry and exit do nothing, and    *)
(* writeback has no effect: they leave the native service and the files as *)
(* they are and raise nothing, and the constructor builds the same         *)
(* instance for either value of writeback.                                 *)
(***************************************************************************)
C14_BridgeSyncNoOp ==
    /\ [](\A n \in SuiteNames :
             ObjCUserDefaults_init(TRUE, n) = ObjCUserDefaults_init(FALSE, n))
    /\ [][((IsOp("sync") \/ IsOp("enter") \/ IsOp("exit")) /\ last'.cls = "ObjC")
          => /\ native' = native
             /\ disk' = disk
             /\ last'.eff = {}
             /\ last'.outcome \in {"ok", "BodyException"}
             /\ \A s \in Stores :
                   [stores'[s] EXCEPT !.entered = FALSE]
                      = [stores[s] EXCEPT !.entered = FALSE]]_vars

\* A with-block on a bridge-backed store was left while the native service
\* held a value.
C14_Witness ==
    /\ last.op = "exit" /\ last.cls = "ObjC"
    /\ native[stores[last.store].objcclass]["a"] # Absent

(***************************************************************************)
(* C15: every operation is all-or-nothing: when an operation raises, the   *)
(* in-memory documents and the files are exactly as before the call (a     *)
(* sync() that fails encoding leaves the previous file, a delete of an     *)
(* absent key leaves the document).                                        *)
(***************************************************************************)
Failed(o) == o.outcome \notin {"ok", "BodyException"}

C15_AllOrNothing ==
    [][(steps' = steps + 1 /\ Failed(last'))
       => /\ disk' = disk
          /\ \A s \in Stores : stores'[s].data = stores[s].data]_vars

(***************************************************************************)
(* C16: file backend: get, set, delete, iteration and length act on the    *)
(* in-memory document alone: they do no I/O, leave every file as it is,    *)
(* and answer from the in-memory document whatever the file holds by then. *)
(***************************************************************************)
MappingOps == {"get", "set", "del", "iter", "len", "contains"}

C16_MappingOpsInMemory ==
    [][(steps' = steps + 1 /\ last'.op \in MappingOps /\ last'.cls = "File")
       => LET data == stores[last'.store].data
              k == last'.key
          IN  /\ disk' = disk
              /\ last'.eff = {}
              /\ last'.op = "get" =>
                    IF data[k] = Absent THEN last'.outcome = "KeyError"
                    ELSE last'.outcome = "ok" /\ last'.ret = data[k]
              /\ last'.op = "contains" =>
                    last'.ret = (IF data[k] = Absent THEN "False" ELSE "True")
              /\ last'.op = "iter" => last'.ret = {x \in Keys : data[x] # Absent}
              /\ last'.op = "len" =>
                    last'.ret = Cardinality({x \in Keys : data[x] # Absent})]_vars

\* A file-backed store answered a lookup with a value its file does not hold.
C16_Witness ==
    /\ last.op = "get" /\ last.cls = "File" /\ last.outcome = "ok"
    /\ last.ret = "lst"
    /\ plistlib_load(disk[stores[last.store].path]).doc[last.key] # "lst"

(***************************************************************************)
(* C17: availability probe: for an identifier of LibTerm or a-Shell the    *)
(* probe yields None without importing or initializing the bridge; when    *)
(* the import fails it yields None; otherwise it yields the handle of the  *)
(* default domain.  The handle is initialized only with the flavor check   *)
(* passed and the import done, and the result is never probed again.       *)
(***************************************************************************)
Incompatible(id) == id \in {"ch.marcela.ada.LibTerm", "AsheKube.app.a-Shell"}

Probed == phase \in {"probed", "ready", "crashed"}

C17_Probe ==
    /\ [](Probed =>
            /\ Incompatible(BUNDLE_ID) => NSUserDefaults = None /\ bootLog = {}
            /\ (~Incompatible(BUNDLE_ID) /\ ~env.bridge)
               => NSUserDefaults = None /\ bootLog = {"import"}
            /\ (~Incompatible(BUNDLE_ID) /\ env.bridge)
               => NSUserDefaults = "standard" /\ bootLog = {"import", "init"})
    /\ []("init" \in bootLog => "import" \in bootLog /\ ~Incompatible(BUNDLE_ID))
    /\ [][Probed => NSUserDefaults' = NSUserDefaults /\ bootLog' = bootLog]_vars

\* In a-Shell, with a bridge module that could be imported, the probe left
\* the bridge alone and a file-backed store was constructed by the facade.
C17_Witness ==
    /\ BUNDLE_ID = "AsheKube.app.a-Shell" /\ env.bridge
    /\ NSUserDefaults = None /\ bootLog = {}
    /\ UserDefaults = "File"
    /\ last.op = "init" /\ last.cls = "File" /\ last.outcome = "ok"

(***************************************************************************)
(* C18: two file-backed stores on the same path are not coordinated: an    *)
(* operation on one never changes the other's in-memory document, and      *)
(* after a synchronization (sync(), or scope exit with writeback) the      *)
(* on-disk document is the whole in-memory document of the store that      *)
(* synchronized, whatever the other store holds or wrote before.           *)
(***************************************************************************)
BothFileStores == \A s \in Stores : stores[s].cls = "File"

C18_LastWriterWins ==
    [][(steps' = steps + 1 /\ BothFileStores /\ BothFileStores')
       => LET s == last'.store
          IN  /\ \A t \in Stores \ {s} : stores'[t] = stores[t]
              /\ ((last'.op = "sync" \/ (last'.op = "exit" /\ last'.writeback))
                    /\ ~Failed(last') /\ SupportedDoc(stores'[s].data))
                 => plistlib_load(disk'[stores'[s].path])
                       = [exc |-> None, doc |-> stores'[s].data]]_vars

(***************************************************************************)
(* C19: scope exit never swallows an exception: when the body of a         *)
(* with-block raised, the exit runs the backend's policy (file backend:    *)
(* sync; bridge backend: nothing) and the exception still reaches the      *)
(* caller; scope entry returns the same store without reloading, so        *)
(* mutations made before the scope are kept.                               *)
(***************************************************************************)
C19_ExitPropagates ==
    [][/\ IsOp("exit") =>
             LET st == stores'[last'.store]
             IN  /\ last'.value = "raised" => last'.outcome # "ok"
                 /\ (last'.value = "raised" /\ SupportedDoc(st.data))
                    => last'.outcome = "BodyException"
                 /\ st.data = stores[last'.store].data
                 /\ (last'.cls = "File" /\ last'.writeback /\ SupportedDoc(st.data))
                    => plistlib_load(disk'[st.path]) = [exc |-> None, doc |-> st.data]
                 /\ (last'.cls = "File" /\ ~last'.writeback) => disk' = disk
                 /\ last'.cls = "ObjC" => disk' = disk /\ native' = native
       /\ IsOp("enter") =>
             /\ last'.ret = last'.store
             /\ stores'[last'.store] = [stores[last'.store] EXCEPT !.entered = TRUE]
             /\ disk' = disk /\ native' = native]_vars

\* A with-block on a writeback store whose body deleted a key and then raised:
\* the deletion is on disk and the exception went on to the caller.
C19_Witness ==
    /\ last.op = "exit" /\ last.value = "raised" /\ last.outcome = "BodyException"
    /\ last.cls = "File" /\ last.writeback
    /\ stores[last.store].data["a"] = Absent
    /\ plistlib_load(disk[stores[last.store].path]).doc["a"] = Absent

(***************************************************************************)
(* C20: sync() of a file store never changes the in-memory document or the *)
(* store's path; a second sync() right after the first leaves the same     *)
(* file as the first did; and the only file sync() writes is the one the   *)
(* constructor loaded the document from.                                   *)
(***************************************************************************)
C20_SyncStable ==
    [][/\ (IsOp("sync") /\ last'.cls = "File") =>
             LET st == stores[last'.store]
             IN  /\ stores' = stores
                 /\ \A p \in DOMAIN disk : p # st.path => disk'[p] = disk[p]
                 /\ st.path = get_userdefaults_path
                 /\ FileUserDefaults_sync(stores'[last'.store], disk').disk = disk'
       /\ (IsOp("init") /\ last'.cls = "File" /\ last'.outcome = "ok") =>
             LET st == stores'[last'.store]
             IN  /\ st.path = get_userdefaults_path
                 /\ "read" \in last'.eff
                 /\ plistlib_load(disk[st.path]) = [exc |-> None, doc |-> st.data]
       /\ (steps' = steps + 1 /\ last'.op # "init") =>
             \A s \in Stores : stores'[s].path = stores[s].path]_vars

\* A writeback store under SyncedPreferences synced a document that holds a
\* tuple: the file has the list, the in-memory document still the tuple.
C20_Witness ==
    /\ last.op = "sync" /\ last.cls = "File" /\ last.writeback
    /\ last.outcome = "ok" /\ "write" \in last.eff
    /\ stores[last.store].path[3] = "SyncedPreferences"
    /\ stores[last.store].data["b"] = "tup"
    /\ plistlib_load(disk[stores[last.store].path]).doc["b"] = "lst"

====
